---- MODULE Spec2Model ----
(***************************************************************************)
(* Model of src/main.py: the Streamlit cover-letter form.                  *)
(*                                                                         *)
(* Streamlit executes main() from top to bottom once per user interaction  *)
(* (a "script run").  What survives from one run to the next is the widget *)
(* state only: the uploaded file, the value of each text field and select  *)
(* box.  Every local variable of main() is recomputed by every run.  Each  *)
(* action below is one user interaction followed by the whole script run   *)
(* it triggers.                                                            *)
(*                                                                         *)
(* Text is a sequence of tokens.  The token "Error" stands for the five    *)
(* characters the code tests with startswith("Error"), the token " " for   *)
(* white space; concatenation of texts is \o.                              *)
(***************************************************************************)
EXTENDS Integers, Sequences, FiniteSets, TLC

\* ------------------------------------------------------------------ bounds

\* Page count of the uploaded PDF that has pages.
MaxPages == 2
\* Extraction calls followed for one upload; a run that would issue one more
\* is not taken.
MaxExtractions == 3

\* ------------------------------------------------------------------- texts

None == <<"<None>">>

\* str.strip(): leading and trailing white space removed.
RECURSIVE LStrip(_)
LStrip(s) == IF s # <<>> /\ Head(s) = " " THEN LStrip(Tail(s)) ELSE s

RECURSIVE RStrip(_)
RStrip(s) ==
    IF s # <<>> /\ s[Len(s)] = " " THEN RStrip(SubSeq(s, 1, Len(s) - 1)) ELSE s

Strip(s) == RStrip(LStrip(s))

\* str.startswith("Error")
StartsWithError(s) == s # <<>> /\ Head(s) = "Error"

\* str.lower() on the tokens of a file name.
LowerTok(t) == IF t = ".PDF" THEN ".pdf" ELSE IF t = "CV" THEN "cv" ELSE t

Lower(s) == [i \in 1..Len(s) |-> LowerTok(s[i])]

\* str.endswith('.pdf')
EndsWithPdf(s) == s # <<>> /\ s[Len(s)] = ".pdf"

\* ------------------------------------------------------------------ inputs

\* An uploaded file: its name, and what the PDF converter makes of its bytes
\* (pages 1..pages, or an exception when corrupt).
NoFile == [name |-> <<>>, pages |-> 0, corrupt |-> FALSE]

Files ==
    {[name |-> <<"photo", ".png">>, pages |-> 0, corrupt |-> FALSE]}
    \cup {[name |-> <<"CV", ".PDF">>, pages |-> n, corrupt |-> FALSE] : n \in {0, MaxPages}}
    \cup {[name |-> <<"broken", ".pdf">>, pages |-> 0, corrupt |-> TRUE]}

\* What the user may type into the resume field and the job description.
ResumeEdits == {<<>>, <<" ">>, <<"c">>}
JobTexts == {<<>>, <<" ">>, <<"j">>}
LetterEdits == {<<"m">>}

Industries == {<<"Technology">>, <<"Finance">>}
Tones == {<<"Professional">>, <<"Friendly">>, <<"Formal">>, <<"Casual">>}
Themes == {"Light", "Dark"}
Templates == {"Classic", "Modern", "Creative"}

\* A response of the completion service: an exception carrying msg, or a
\* completion whose choices are the message contents.
NoResp == [kind |-> "none", msg |-> <<>>, choices |-> <<>>]
Raise(m) == [kind |-> "raise", msg |-> m, choices |-> <<>>]
Completion(cs) == [kind |-> "ok", msg |-> <<>>, choices |-> cs]

TransportError == <<"Connection error.">>
IndexError == <<"list index out of range">>
PdfError == <<"Unable to get page count.">>

VisionResponses ==
    {Raise(TransportError), Completion(<<>>),
     Completion(<< <<"a">> >>), Completion(<< <<"b">> >>)}

GenResponses ==
    {Raise(TransportError), Completion(<<>>),
     Completion(<< <<"L">> >>), Completion(<< <<"Error", "L">> >>)}

\* --------------------------------------------------------------- functions

\* The result of a function call: a returned value, or an exception that left
\* the function.
Return(v) == [raised |-> FALSE, value |-> v]
Raised(m) == [raised |-> TRUE, value |-> m]

\* pdf2image.convert_from_bytes
convert_from_bytes(f) ==
    IF f.corrupt THEN Raised(PdfError) ELSE Return([i \in 1..f.pages |-> i])

\* BytesIO / image.save(format="JPEG") / b64encode of the first page.
EncodePage(p) == <<"b64jpeg", p>>
EncodeBytes(f) == <<"b64raw", 0>>

\* A variant without the PDF branch: every upload is encoded as it is.
prepare_resume_image_no_pdf(f, ext) ==
    [value |-> EncodeBytes(f), errors |-> <<>>]

\* Lines 13-34.  value is the string returned (None for None), errors what
\* st.error shows.
prepare_resume_image(f, ext) ==
    IF EndsWithPdf(ext)
    THEN LET images == convert_from_bytes(f)
         IN IF images.raised
            THEN [value |-> None, errors |-> << <<"PDF conversion error: ">> \o images.value >>]
            ELSE IF images.value # <<>>
                 THEN [value |-> EncodePage(images.value[1]), errors |-> <<>>]
                 ELSE [value |-> None, errors |-> <<>>]
    ELSE [value |-> EncodeBytes(f), errors |-> <<>>]

\* A variant that reads response.choices[0] after the try block: the
\* IndexError of an empty choices list leaves the function.
extract_text_choice_outside_try(resp) ==
    IF resp.kind = "raise"
    THEN Return(<<"Error", " extracting resume text: ">> \o resp.msg)
    ELSE IF Len(resp.choices) = 0
    THEN Raised(IndexError)
    ELSE Return(resp.choices[1])

\* Lines 49-62.  The call and response.choices[0] are both inside the try
\* block: an exception of the call and the IndexError of an empty choices list
\* are caught and come back as a string.
extract_text_from_resume_from_base64(resp) ==
    IF resp.kind = "raise"
    THEN Return(<<"Error", " extracting resume text: ">> \o resp.msg)
    ELSE IF Len(resp.choices) = 0
    THEN Return(<<"Error", " extracting resume text: ">> \o IndexError)
    ELSE Return(resp.choices[1])

\* The user message of the generation request (lines 81-90).
UserMessage(resume_text, job, ind, tn) ==
    <<"Generate a cover letter for a job in the ">> \o ind
    \o <<" industry. ... maintain a ">> \o tn \o <<" tone.\n\nResume:\n">>
    \o resume_text \o <<"\n\nJob Description:\n">> \o job \o <<"\n">>

\* A variant whose except branch words its message differently.
generate_cover_letter_other_wording(resp) ==
    IF resp.kind = "raise"
    THEN Return(<<"Could not generate the cover letter: ">> \o resp.msg)
    ELSE IF Len(resp.choices) = 0
    THEN Return(<<"Could not generate the cover letter: ">> \o IndexError)
    ELSE Return(resp.choices[1])

\* Lines 92-104, as lines 49-62.
generate_cover_letter(resp) ==
    IF resp.kind = "raise"
    THEN Return(<<"Error", " generating cover letter: ">> \o resp.msg)
    ELSE IF Len(resp.choices) = 0
    THEN Return(<<"Error", " generating cover letter: ">> \o IndexError)
    ELSE Return(resp.choices[1])

\* ------------------------------------------------------------------- state

VARIABLES
    \* widget state, kept by Streamlit between runs
    uploaded_file, resume_widget, job_description, industry, tone, theme,
    template_choice,
    \* the last interaction, and what the run it triggered did
    event, vision_response, gen_response, base64_image,
    extracted_resume_text, errors, prompt, cover_letter, preview,
    edited_cover_letter, download_data, state,
    \* history
    extractions, user_edit

vars == <<uploaded_file, resume_widget, job_description, industry, tone, theme,
          template_choice, event, vision_response, gen_response, base64_image,
          extracted_resume_text, errors, prompt, cover_letter, preview,
          edited_cover_letter, download_data, state, extractions, user_edit>>

\* The "Extracted Resume Text" field when it is not on the page.
NoWidget == [default |-> None, value |-> None]

\* st.text_area(label, value=default): the field keeps what the user typed as
\* long as it is created with the same label and default; created with
\* another default it is a new field showing that default.
text_area(widget, default) ==
    IF widget.default = default THEN widget.value ELSE default

\* Messages of st.error.
FailedToProcess == <<"Failed to process the uploaded file.">>
CouldNotConvert == <<"Could not convert PDF to image.">>
ResumeMissing == <<"Resume text is missing. Please check your upload and extraction.">>
JobRequired == <<"Job description is required.">>

\* The preview of the uploaded file (lines 142-152).
PreviewErrors(f, ext) ==
    IF EndsWithPdf(ext)
    THEN LET images == convert_from_bytes(f)
         IN IF images.raised THEN << <<"Error converting PDF: ">> \o images.value >>
            ELSE IF images.value # <<>> THEN <<>> ELSE <<CouldNotConvert>>
    ELSE <<>>

\* Whether a run with this upload calls the vision model.
Extracts(f) ==
    f # NoFile /\ prepare_resume_image(f, Lower(f.name)).value # None

\* Step 1 of main(): upload, preview, normalization, extraction, the editable
\* field.  text is extracted_resume_text as Step 3 reads it.
Step1(f, widget, resp) ==
    IF f = NoFile
    THEN [text |-> <<>>, widget |-> NoWidget, errors |-> <<>>, b64 |-> None,
          crashed |-> FALSE]
    ELSE LET ext == Lower(f.name)
             img == prepare_resume_image(f, ext)
             errs == PreviewErrors(f, ext) \o img.errors
         IN IF img.value = None
            THEN [text |-> <<>>, widget |-> NoWidget,
                  errors |-> errs \o <<FailedToProcess>>, b64 |-> None,
                  crashed |-> FALSE]
            ELSE LET r == extract_text_from_resume_from_base64(resp)
                 IN IF r.raised
                    THEN [text |-> <<>>, widget |-> NoWidget, errors |-> errs,
                          b64 |-> img.value, crashed |-> TRUE]
                    ELSE IF StartsWithError(r.value)
                    THEN [text |-> r.value, widget |-> NoWidget,
                          errors |-> errs \o <<r.value>>, b64 |-> img.value,
                          crashed |-> FALSE]
                    ELSE [text |-> text_area(widget, r.value),
                          widget |-> [default |-> r.value,
                                      value |-> text_area(widget, r.value)],
                          errors |-> errs, b64 |-> img.value, crashed |-> FALSE]

\* Whether Step 3 calls the text model.
Generates(clicked, resume_text, job) ==
    clicked /\ Strip(resume_text) # <<>> /\ Strip(job) # <<>>

\* The Preview tab (lines 194-201).
Render(tmpl, letter) ==
    IF tmpl = "Modern"
    THEN <<"<div style='font-family:Arial, sans-serif;'>">> \o letter \o <<"</div>">>
    ELSE IF tmpl = "Creative"
    THEN <<"<div style='font-family:Georgia, serif; color:#4B0082;'>">> \o letter
         \o <<"</div>">>
    ELSE letter

\* A variant that hands the preview's markup to the download.
download_button_data_preview(edited, letter, tmpl) == Render(tmpl, letter)

\* data= of st.download_button (line 209).
download_button_data(edited, letter, tmpl) == edited

Nothing ==
    [errors |-> <<>>, prompt |-> None, cover_letter |-> None, preview |-> None,
     edited |-> None, download |-> None]

\* Step 3 of main(): the Generate button.
Step3(clicked, resume_text, job, ind, tn, tmpl, resp) ==
    IF ~clicked THEN Nothing @@ [state |-> "Idle"]
    ELSE IF Strip(resume_text) = <<>>
    THEN [Nothing EXCEPT !.errors = <<ResumeMissing>>] @@ [state |-> "Rejected"]
    ELSE IF Strip(job) = <<>>
    THEN [Nothing EXCEPT !.errors = <<JobRequired>>] @@ [state |-> "Rejected"]
    ELSE LET r == generate_cover_letter(resp)
             msg == UserMessage(resume_text, job, ind, tn)
         IN IF r.raised
            THEN [Nothing EXCEPT !.prompt = msg] @@ [state |-> "Crashed"]
            ELSE IF StartsWithError(r.value)
            THEN [Nothing EXCEPT !.prompt = msg, !.errors = <<r.value>>]
                 @@ [state |-> "Failed"]
            \* The editor exists only in runs of the button: a run triggered by
            \* typing into it does not create it, and Streamlit drops the state
            \* of a widget a run did not create.  So it always opens on its
            \* default.
            ELSE LET edited == text_area(NoWidget, r.value)
                 IN [errors |-> <<>>, prompt |-> msg, cover_letter |-> r.value,
                     preview |-> Render(tmpl, r.value), edited |-> edited,
                     download |-> download_button_data(edited, r.value, tmpl),
                     state |-> "Ready"]

\* One execution of main() on the widget state given, the button pressed or
\* not.  The services answer as they please.
Run(ev, clicked, f, widget, job, ind, tn, th, tmpl) ==
    /\ Extracts(f) => extractions' <= MaxExtractions
    /\ \E vresp \in IF Extracts(f) THEN VisionResponses ELSE {NoResp} :
       \E s1 \in {Step1(f, widget, vresp)} :
       \E gresp \in IF ~s1.crashed /\ Generates(clicked, s1.text, job)
                    THEN GenResponses ELSE {NoResp} :
       \E s3 \in {IF s1.crashed
                  THEN Nothing @@ [state |-> "Crashed"]
                  ELSE Step3(clicked, s1.text, job, ind, tn, tmpl, gresp)} :
          /\ event' = ev
          /\ uploaded_file' = f
          /\ resume_widget' = s1.widget
          /\ job_description' = job
          /\ industry' = ind
          /\ tone' = tn
          /\ theme' = th
          /\ template_choice' = tmpl
          /\ vision_response' = vresp
          /\ gen_response' = gresp
          /\ base64_image' = s1.b64
          /\ extracted_resume_text' = s1.text
          /\ errors' = s1.errors \o s3.errors
          /\ prompt' = s3.prompt
          /\ cover_letter' = s3.cover_letter
          /\ preview' = s3.preview
          /\ edited_cover_letter' = s3.edited
          /\ download_data' = s3.download
          /\ state' = s3.state

\* An interaction: its kind, the text typed (EditLetter), and the state of the
\* page it was made on.
Ev(kind, text) == [kind |-> kind, text |-> text, after |-> state]

Init ==
    /\ uploaded_file = NoFile
    /\ resume_widget = NoWidget
    /\ job_description = <<>>
    /\ industry = <<"Technology">>
    /\ tone = <<"Professional">>
    /\ theme = "Light"
    /\ template_choice = "Classic"
    /\ event = [kind |-> "Open", text |-> <<>>, after |-> "Idle"]
    /\ vision_response = NoResp
    /\ gen_response = NoResp
    /\ base64_image = None
    /\ extracted_resume_text = <<>>
    /\ errors = <<>>
    /\ prompt = None
    /\ cover_letter = None
    /\ preview = None
    /\ edited_cover_letter = None
    /\ download_data = None
    /\ state = "Idle"
    /\ extractions = 0
    /\ user_edit = None

\* The count of extraction calls of the current upload after a run on f.
Counted(n, f) == IF Extracts(f) THEN n + 1 ELSE n

\* The user puts a file into the uploader.  The resume field of the page is
\* kept if the new extraction returns the default it was created with.
Upload ==
    \E f \in Files :
        /\ extractions' = Counted(0, f)
        /\ user_edit' = None
        /\ Run(Ev("Upload", <<>>), FALSE, f, resume_widget, job_description,
               industry, tone, theme, template_choice)

\* The user removes the file from the uploader.
RemoveFile ==
    /\ uploaded_file # NoFile
    /\ extractions' = 0
    /\ user_edit' = None
    /\ Run(Ev("RemoveFile", <<>>), FALSE, NoFile, resume_widget, job_description,
           industry, tone, theme, template_choice)

\* The user changes the text of the "Extracted Resume Text" field.
EditResume ==
    \E t \in ResumeEdits :
        /\ resume_widget # NoWidget
        /\ t # resume_widget.value
        /\ extractions' = Counted(extractions, uploaded_file)
        /\ user_edit' = t
        /\ Run(Ev("EditResume", <<>>), FALSE, uploaded_file,
               [resume_widget EXCEPT !.value = t], job_description, industry,
               tone, theme, template_choice)

\* The user changes the job description.
EditJob ==
    \E t \in JobTexts :
        /\ t # job_description
        /\ extractions' = Counted(extractions, uploaded_file)
        /\ UNCHANGED user_edit
        /\ Run(Ev("EditJob", <<>>), FALSE, uploaded_file, resume_widget, t, industry,
               tone, theme, template_choice)

\* The user changes the industry, the tone, the theme or the template.
SetIndustry ==
    \E i \in Industries :
        /\ i # industry
        /\ extractions' = Counted(extractions, uploaded_file)
        /\ UNCHANGED user_edit
        /\ Run(Ev("Setting", <<>>), FALSE, uploaded_file, resume_widget,
               job_description, i, tone, theme, template_choice)

SetTone ==
    \E t \in Tones :
        /\ t # tone
        /\ extractions' = Counted(extractions, uploaded_file)
        /\ UNCHANGED user_edit
        /\ Run(Ev("Setting", <<>>), FALSE, uploaded_file, resume_widget,
               job_description, industry, t, theme, template_choice)

SetTheme ==
    \E t \in Themes :
        /\ t # theme
        /\ extractions' = Counted(extractions, uploaded_file)
        /\ UNCHANGED user_edit
        /\ Run(Ev("Setting", <<>>), FALSE, uploaded_file, resume_widget,
               job_description, industry, tone, t, template_choice)

SetTemplate ==
    \E t \in Templates :
        /\ t # template_choice
        /\ extractions' = Counted(extractions, uploaded_file)
        /\ UNCHANGED user_edit
        /\ Run(Ev("Setting", <<>>), FALSE, uploaded_file, resume_widget,
               job_description, industry, tone, theme, t)

\* The user presses "Generate Cover Letter".
Generate ==
    /\ extractions' = Counted(extractions, uploaded_file)
    /\ UNCHANGED user_edit
    /\ Run(Ev("Generate", <<>>), TRUE, uploaded_file, resume_widget,
           job_description, industry, tone, theme, template_choice)

\* The user changes the text of the "Cover Letter Editor" field.  The run
\* this triggers finds the button not pressed.
EditLetter ==
    \E t \in LetterEdits :
        /\ edited_cover_letter # None
        /\ t # edited_cover_letter
        /\ extractions' = Counted(extractions, uploaded_file)
        /\ UNCHANGED user_edit
        /\ Run(Ev("EditLetter", t), FALSE, uploaded_file, resume_widget,
               job_description, industry, tone, theme, template_choice)

\* The user presses "Download Edited Cover Letter": the browser saves
\* download_data, and the script runs again.
Download ==
    /\ download_data # None
    /\ extractions' = Counted(extractions, uploaded_file)
    /\ UNCHANGED user_edit
    /\ Run(Ev("Download", <<>>), FALSE, uploaded_file, resume_widget,
           job_description, industry, tone, theme, template_choice)

Next ==
    \/ Upload
    \/ RemoveFile
    \/ EditResume
    \/ EditJob
    \/ SetIndustry
    \/ SetTone
    \/ SetTheme
    \/ SetTemplate
    \/ Generate
    \/ EditLetter
    \/ Download

Spec == Init /\ [][Next]_vars

TypeOK ==
    /\ uploaded_file \in Files \cup {NoFile}
    /\ state \in {"Idle", "Rejected", "Failed", "Ready", "Crashed"}
    /\ extractions \in 0..MaxExtractions

\* ------------------------------------------------------------------ claims

\* Whether message m is among the messages the run showed.
Shown(m) == \E i \in 1..Len(errors) : errors[i] = m

\* The run called the vision model, the text model.
ExtractionCalled == vision_response # NoResp
GenerationCalled == gen_response # NoResp

\* The service answered with a text.
Succeeded(resp) == resp.kind = "ok" /\ Len(resp.choices) > 0

EmptyPdf(f) ==
    f # NoFile /\ EndsWithPdf(Lower(f.name)) /\ ~f.corrupt /\ f.pages = 0

\* C1: a run in which Generate is pressed and the resume text or the job
\* description is empty issues no network call (no extraction call, no
\* generation call) and ends Rejected with the message of the empty field,
\* whatever the upload state.
C1_ValidationGate ==
    (event.kind = "Generate"
     /\ (extracted_resume_text = <<>> \/ job_description = <<>>))
    => /\ ~ExtractionCalled
       /\ ~GenerationCalled
       /\ state = "Rejected"
       /\ IF extracted_resume_text = <<>> THEN Shown(ResumeMissing)
          ELSE Shown(JobRequired)

\* C2: for every non-empty resume text and non-empty job description (white
\* space only included) a press of Generate issues one generation call, and
\* when the service answers with a text the submission is Ready with exactly
\* that text as the cover letter, whatever the text.
C2_OneGenerationCall ==
    (event.kind = "Generate"
     /\ extracted_resume_text # <<>> /\ job_description # <<>>)
    => /\ GenerationCalled
       /\ Succeeded(gen_response)
          => state = "Ready" /\ cover_letter = gen_response.choices[1]

\* C3: a generation call is issued only in a run whose extraction call
\* succeeded and whose text is in the editable field, and the resume text of
\* the prompt is the value of that field.
C3_GenerationAfterExtraction ==
    GenerationCalled
    => /\ Succeeded(vision_response)
       /\ resume_widget # NoWidget
       /\ prompt = UserMessage(resume_widget.value, job_description, industry, tone)

\* C4: the extraction call is issued at most once for one upload.
C4_ExtractOncePerUpload == extractions <= 1

\* C5: once the user has edited the extracted resume text, every generation
\* call for that upload builds its prompt from the edited value.
C5_EditOverrides ==
    (GenerationCalled /\ user_edit # None)
    => prompt = UserMessage(user_edit, job_description, industry, tone)

\* C6: whenever the download is offered, its data is the text in the "Cover
\* Letter Editor" field; template and theme change nothing of it.
C6_DownloadRoundTrip ==
    download_data # None
    => edited_cover_letter # None /\ download_data = edited_cover_letter

C6_Witness ==
    /\ download_data # None
    /\ template_choice = "Modern"
    /\ theme = "Dark"
    /\ preview # download_data

\* C7: after the user changes the text of the "Cover Letter Editor" of a Ready
\* submission, editor and download are still offered, the download holds the
\* edited text, and no generation call was needed.
C7_EditedLetterDownloadable ==
    event.kind = "EditLetter"
    => /\ edited_cover_letter = event.text
       /\ download_data = event.text
       /\ ~GenerationCalled

\* C8: for an uploaded PDF of which the converter returns no page,
\* prepare_resume_image returns None, no extraction call is made for the
\* upload, the resume text is empty, and a press of Generate is rejected.
C8_EmptyPdfRejected ==
    EmptyPdf(uploaded_file)
    => /\ base64_image = None
       /\ ~ExtractionCalled
       /\ extractions = 0
       /\ extracted_resume_text = <<>>
       /\ resume_widget = NoWidget
       /\ event.kind = "Generate"
          => state = "Rejected" /\ ~GenerationCalled /\ Shown(ResumeMissing)

C8_Witness ==
    /\ EmptyPdf(uploaded_file)
    /\ event.kind = "Generate"
    /\ job_description = <<"j">>
    /\ Shown(FailedToProcess)

\* C9: when the generation call raises, the submission is Failed, the message
\* shown carries the underlying message, no cover letter, preview, editor or
\* download is offered; and the form stays usable: a press of Generate on the
\* Failed page calls the text model again whenever the inputs pass the gate,
\* and is Ready with the returned text when the code takes it for a letter.
C9_FailedRun ==
    gen_response.kind = "raise"
    => /\ state = "Failed"
       /\ Shown(<<"Error", " generating cover letter: ">> \o gen_response.msg)
       /\ cover_letter = None
       /\ preview = None
       /\ edited_cover_letter = None
       /\ download_data = None

C9_Retry ==
    (state = "Failed" /\ event'.kind = "Generate")
    => /\ Generates(TRUE, extracted_resume_text', job_description')
          <=> gen_response' # NoResp
       /\ (Succeeded(gen_response') /\ ~StartsWithError(gen_response'.choices[1]))
          => /\ state' = "Ready"
             /\ cover_letter' = gen_response'.choices[1]
             /\ download_data' = gen_response'.choices[1]

C10_ZeroChoices ==
    /\ vision_response = Completion(<<>>)
       => /\ state # "Crashed"
          /\ Shown(<<"Error", " extracting resume text: ">> \o IndexError)
          /\ resume_widget = NoWidget
    /\ gen_response = Completion(<<>>)
       => /\ state = "Failed"
          /\ Shown(<<"Error", " generating cover letter: ">> \o IndexError)
          /\ cover_letter = None
          /\ download_data = None

\* Both calls of one run answered with zero choices.
C10_Witness ==
    /\ vision_response = Completion(<<>>)
    /\ gen_response = Completion(<<>>)
    /\ state = "Failed"

====
